---- MODULE Spec2Model ----
(***************************************************************************)
(* Model of src/bot.mjs: a Telegraf bot that keeps, per chat id, a         *)
(* conversation history, a settings object and the id of the message that  *)
(* shows the settings screen, and answers every text message with two      *)
(* completions (constrained, unrestricted).                                *)
(*                                                                         *)
(* Handlers are async functions.  A handler runs from one await to the     *)
(* next without interruption; at an await it is suspended and the handler  *)
(* of another update may start or resume.  Every action below is one such  *)
(* synchronous segment.  Arrays and settings objects are JavaScript        *)
(* objects, held by reference: they live in the heaps `arrays` and         *)
(* `objects`, the maps and the handlers' locals hold references.           *)
(* Numbers with one decimal (0.2, 0.6, 0.7, 0.9) are kept in tenths.       *)
(***************************************************************************)
EXTENDS Integers, Sequences, FiniteSets, TLC

\* ------------------------------------------------------------------ bounds
MaxEvents == 3
MaxLiveEvents == 2
MaxHandlers == 2
NumChats == 2

Chats == 1..NumChats
Slots == 1..MaxHandlers
Refs == 1..(NumChats + MaxHandlers + 1)
NoRef == 0
NoMsg == 0

\* --------------------------------------------------------- program constants
STOP_MARKER == "<END>"
TextCeiling == 3500
WordsCeiling == 120
UnrestrictedMaxTokens == 800
UnrestrictedTemperature == 7

\* ------------------------------------------------------------------- texts
\* A text is a sequence of tokens; " " is white space, "/" the command prefix.
NoDirectives == [format |-> "none", words |-> 0, stop |-> "none"]

Min(a, b) == IF a < b THEN a ELSE b

RECURSIVE TrimStart(_)
TrimStart(t) == IF t # <<>> /\ Head(t) = " " THEN TrimStart(Tail(t)) ELSE t

RECURSIVE TrimEnd(_)
TrimEnd(t) ==
  IF t # <<>> /\ t[Len(t)] = " " THEN TrimEnd(SubSeq(t, 1, Len(t) - 1)) ELSE t

Trim(t) == TrimEnd(TrimStart(t))

StartsWithSlash(t) == t # <<>> /\ Head(t) = "/"

Plain(kind, t) == [kind |-> kind, text |-> t, dir |-> NoDirectives, len |-> Len(t)]

DEFAULT_SYSTEM == Plain("system", <<"Ty poleznyj assistent. Otvechaj po delu.">>)

EmptyAnswer == Plain("empty", <<"(pustoj otvet)">>)

NoContent == Plain("none", <<>>)

Message(role, content) == [role |-> role, content |-> content]

\* ---------------------------------------------------------------- settings
newDefaultSettings ==
  [max_tokens |-> 128, format |-> "bullets", temperature |-> 7,
   frequency_penalty |-> 0, presence_penalty |-> 0, use_stop |-> TRUE]

prettySettings(s) ==
  [max_tokens |-> s.max_tokens,
   format |-> IF s.format = "json" THEN "JSON" ELSE "Spisok",
   temp |-> s.temperature,
   freq |-> s.frequency_penalty,
   pres |-> s.presence_penalty,
   stop |-> IF s.use_stop THEN "ON (<END>)" ELSE "OFF"]

NoSummary ==
  [max_tokens |-> 0, format |-> "none", temp |-> 0, freq |-> 0, pres |-> 0,
   stop |-> "none"]

\* ------------------------------------------------------------------- state
VARIABLES
  dialogs,              \* chatId -> reference of the messages array, or NoRef
  settingsByChat,       \* chatId -> reference of the settings object, or NoRef
  settingsMsgIdByChat,  \* chatId -> message_id of the settings screen, or NoMsg
  arrays,               \* heap: reference -> messages array
  objects,              \* heap: reference -> settings object
  chatMsgs,             \* chatId -> the keyboard messages of the chat, by message_id
  handlers,             \* slot -> the handler running there, its locals and calls
  nEvents               \* updates received so far

vars ==
  <<dialogs, settingsByChat, settingsMsgIdByChat, arrays, objects, chatMsgs,
    handlers, nEvents>>

Store ==
  [dialogs |-> dialogs, settingsByChat |-> settingsByChat,
   settingsMsgIdByChat |-> settingsMsgIdByChat, arrays |-> arrays,
   objects |-> objects, chatMsgs |-> chatMsgs]

LiveArrays(st, hs) ==
  ({st.dialogs[c] : c \in Chats} \cup {hs[h].history : h \in Slots}) \ {NoRef}

LiveObjects(st, hs) ==
  ({st.settingsByChat[c] : c \in Chats} \cup {hs[h].s : h \in Slots}) \ {NoRef}

\* new Array / new Object: the lowest reference nothing refers to
Alloc(live) == CHOOSE r \in Refs : r \notin live /\ \A q \in Refs : q < r => q \in live

\* ------------------------------------------------------------ session store
ensureSessionDialogOnly(st, hs, chatId) ==
  IF st.dialogs[chatId] = NoRef
  THEN LET r == Alloc(LiveArrays(st, hs)) IN
       [st EXCEPT !.dialogs[chatId] = r,
                  !.arrays[r] = <<Message("system", DEFAULT_SYSTEM)>>]
  ELSE st

\* one default settings object shared by the chats
ensureSessionSharedSettings(st, hs, chatId) ==
  LET st1 == IF st.dialogs[chatId] = NoRef
             THEN LET r == Alloc(LiveArrays(st, hs)) IN
                  [st EXCEPT !.dialogs[chatId] = r,
                             !.arrays[r] = <<Message("system", DEFAULT_SYSTEM)>>]
             ELSE st
      shared == {st1.settingsByChat[c] : c \in Chats} \ {NoRef}
  IN IF st1.settingsByChat[chatId] = NoRef
     THEN IF shared # {}
          THEN [st1 EXCEPT !.settingsByChat[chatId] = CHOOSE r \in shared : TRUE]
          ELSE LET r == Alloc(LiveObjects(st1, hs)) IN
               [st1 EXCEPT !.settingsByChat[chatId] = r,
                           !.objects[r] = newDefaultSettings]
     ELSE st1

ensureSession(st, hs, chatId) ==
  LET st1 == IF st.dialogs[chatId] = NoRef
             THEN LET r == Alloc(LiveArrays(st, hs)) IN
                  [st EXCEPT !.dialogs[chatId] = r,
                             !.arrays[r] = <<Message("system", DEFAULT_SYSTEM)>>]
             ELSE st
  IN IF st1.settingsByChat[chatId] = NoRef
     THEN LET r == Alloc(LiveObjects(st1, hs)) IN
          [st1 EXCEPT !.settingsByChat[chatId] = r,
                      !.objects[r] = newDefaultSettings]
     ELSE st1

resetSessionKeepSettings(st, hs, chatId) ==
  ensureSession([st EXCEPT !.dialogs[chatId] = NoRef,
                           !.settingsMsgIdByChat[chatId] = NoMsg], hs, chatId)

resetSession(st, hs, chatId) ==
  ensureSession([st EXCEPT !.dialogs[chatId] = NoRef,
                           !.settingsByChat[chatId] = NoRef,
                           !.settingsMsgIdByChat[chatId] = NoMsg], hs, chatId)

getMessages(st, hs, chatId) == ensureSession(st, hs, chatId)

getSettings(st, hs, chatId) == ensureSession(st, hs, chatId)

\* ---------------------------------------------------------------- handlers
NoSent == [of |-> NoContent, first |-> 0, marker |-> FALSE]

\* one outbound call: a transport call (op "reply", "edit", "typing", "ack")
\* or a completion request (op "llm"); res is "pending" while it is awaited,
\* then "ok" or "threw"
Call(op, what) ==
  [op |-> op, what |-> what, summary |-> NoSummary, answer |-> NoSent,
   messages |-> <<>>, payload |-> <<>>, target |-> NoMsg, res |-> "pending"]

\* data and cbMsg: ctx.callbackQuery.data and .message.message_id;
\* ctxText: ctx.message.text
Idle ==
  [kind |-> "idle", chat |-> 0, pc |-> "idle", cbMsg |-> NoMsg, data |-> "none",
   ctxText |-> <<>>, userText |-> <<>>, s |-> NoRef, history |-> NoRef, baseMessages |-> <<>>,
   unrestrictedAnswerRaw |-> NoContent, existingId |-> NoMsg,
   text |-> NoSummary, caught |-> FALSE, out |-> <<>>]

NewHandler(kind, chatId, cbMsg) ==
  [Idle EXCEPT !.kind = kind, !.chat = chatId, !.cbMsg = cbMsg, !.pc = "start",
               !.data = IF cbMsg = NoMsg THEN "none" ELSE kind]

Log(hr, e) == [hr EXCEPT !.out = Append(@, e)]

\* the awaited call returned (ok) or threw
Returned(hr, ok) ==
  [hr EXCEPT !.out[Len(hr.out)].res = IF ok THEN "ok" ELSE "threw"]

\* the handler returns, or an exception leaves it ("threw"): its locals and
\* its context are dropped and the slot is free again
Finish(hr, result) == Idle

IsCallback(hr) ==
  hr.kind \in {"noop", "do_start", "new_question", "open_settings",
               "back_to_prompt", "setting"}

Resets == {"start", "reset", "do_start"}

FreeSlots == {h \in Slots : handlers[h].pc = "idle"}

Running(h) == handlers[h].pc # "idle"

\* every step ends here: the new store and handlers; what no map and no
\* running handler refers to is garbage
Commit(st, hs) ==
  /\ dialogs' = st.dialogs
  /\ settingsByChat' = st.settingsByChat
  /\ settingsMsgIdByChat' = st.settingsMsgIdByChat
  /\ chatMsgs' = st.chatMsgs
  /\ handlers' = hs
  /\ arrays' = [r \in Refs |-> IF r \in LiveArrays(st, hs) THEN st.arrays[r] ELSE <<>>]
  /\ objects' = [r \in Refs |-> IF r \in LiveObjects(st, hs) THEN st.objects[r]
                                ELSE newDefaultSettings]

Put(h, hr) == [handlers EXCEPT ![h] = hr]

\* a new process: the maps are empty, and so are the chats
Init ==
  /\ dialogs = [c \in Chats |-> NoRef]
  /\ settingsByChat = [c \in Chats |-> NoRef]
  /\ settingsMsgIdByChat = [c \in Chats |-> NoMsg]
  /\ arrays = [r \in Refs |-> <<>>]
  /\ objects = [r \in Refs |-> newDefaultSettings]
  /\ chatMsgs = [c \in Chats |-> <<>>]
  /\ handlers = [h \in Slots |-> Idle]
  /\ nEvents = 0

\* ------------------------------------------------------------- UX helpers
\* each helper runs up to its first await and leaves the handler there
showStartScreen(hr) == [Log(hr, Call("reply", "start")) EXCEPT !.pc = "showStartScreen"]

showPrompt(hr) == [Log(hr, Call("reply", "prompt")) EXCEPT !.pc = "showPrompt"]

\* showControls after its edits: await ctx.reply(text, keyboard)
sendControls(hr) ==
  [Log(hr, [Call("reply", "settings") EXCEPT !.summary = hr.text])
     EXCEPT !.pc = "sendControls"]

\* showControls after the in-place edit: the direct edit, if an id was recorded
editExisting(hr) ==
  IF hr.existingId # NoMsg
  THEN [Log(hr, [Call("edit", "direct") EXCEPT !.summary = hr.text,
                                               !.target = hr.existingId])
          EXCEPT !.pc = "editDirect"]
  ELSE sendControls(hr)

showControlsAlwaysSend(st, hs, hr) ==
  LET st1 == getSettings(st, hs, hr.chat)
      hr1 == [hr EXCEPT !.text = prettySettings(st1.objects[st1.settingsByChat[hr.chat]]),
                        !.existingId = st1.settingsMsgIdByChat[hr.chat]]
  IN [st |-> st1, hr |-> sendControls(hr1)]

showControls(st, hs, hr) ==
  LET st1 == getSettings(st, hs, hr.chat)
      hr1 == [hr EXCEPT !.text = prettySettings(st1.objects[st1.settingsByChat[hr.chat]]),
                        !.existingId = st1.settingsMsgIdByChat[hr.chat]]
  IN [st |-> st1,
      hr |-> IF IsCallback(hr1)
             THEN [Log(hr1, [Call("edit", "inPlace") EXCEPT !.summary = hr1.text,
                                                            !.target = hr1.cbMsg])
                     EXCEPT !.pc = "editInPlace"]
             ELSE editExisting(hr1)]

\* what follows `await showControls(ctx)` in the handler
afterShowControls(hr) ==
  IF hr.kind \in Resets THEN showPrompt(hr) ELSE Finish(hr, "returned")

\* ---------------------------------------------------------------- commands
\* an update arrives: its handler starts in a free slot and runs to its
\* first await
BotStart(h, chatId) ==
  /\ nEvents < MaxEvents /\ h \in FreeSlots
  /\ nEvents' = nEvents + 1
  /\ LET hs == Put(h, Idle)
         st1 == resetSession(Store, hs, chatId)
         hr == NewHandler("start", chatId, NoMsg)
     IN Commit(st1, Put(h, [Log(hr, Call("reply", "welcome")) EXCEPT !.pc = "reply"]))

\* the controls command with resetSession in the place of ensureSession
CommandControlsResets(h, chatId) ==
  /\ nEvents < MaxEvents /\ h \in FreeSlots
  /\ nEvents' = nEvents + 1
  /\ LET hs == Put(h, Idle)
         st1 == resetSession(Store, hs, chatId)
         r == showControls(st1, hs, NewHandler("controls", chatId, NoMsg))
     IN Commit(r.st, Put(h, r.hr))

CommandControls(h, chatId) ==
  /\ nEvents < MaxEvents /\ h \in FreeSlots
  /\ nEvents' = nEvents + 1
  /\ LET hs == Put(h, Idle)
         st1 == ensureSession(Store, hs, chatId)
         r == showControls(st1, hs, NewHandler("controls", chatId, NoMsg))
     IN Commit(r.st, Put(h, r.hr))

CommandReset(h, chatId) ==
  /\ nEvents < MaxEvents /\ h \in FreeSlots
  /\ nEvents' = nEvents + 1
  /\ LET hs == Put(h, Idle)
         st1 == resetSession(Store, hs, chatId)
         hr == NewHandler("reset", chatId, NoMsg)
     IN Commit(st1, Put(h, [Log(hr, Call("reply", "resetOk")) EXCEPT !.pc = "reply"]))

\* ----------------------------------------------------------- button actions
\* the callback data of the settings buttons and what their handlers assign
SettingButtons ==
  { [data |-> "len_64", field |-> "max_tokens", value |-> 64],
    [data |-> "len_128", field |-> "max_tokens", value |-> 128],
    [data |-> "len_256", field |-> "max_tokens", value |-> 256],
    [data |-> "len_512", field |-> "max_tokens", value |-> 512],
    [data |-> "fmt_bullets", field |-> "format", value |-> "bullets"],
    [data |-> "fmt_json", field |-> "format", value |-> "json"],
    [data |-> "temp_0.2", field |-> "temperature", value |-> 2],
    [data |-> "temp_0.9", field |-> "temperature", value |-> 9],
    [data |-> "freq_0", field |-> "frequency_penalty", value |-> 0],
    [data |-> "freq_0.6", field |-> "frequency_penalty", value |-> 6],
    [data |-> "pres_0", field |-> "presence_penalty", value |-> 0],
    [data |-> "pres_0.6", field |-> "presence_penalty", value |-> 6],
    [data |-> "stop_on", field |-> "use_stop", value |-> TRUE],
    [data |-> "stop_off", field |-> "use_stop", value |-> FALSE] }

\* the callback data a keyboard offers
controlsKeyboard == {b.data : b \in SettingButtons} \cup {"noop", "back_to_prompt"}

afterAnswerKeyboard == {"new_question", "open_settings"}

startKeyboard == {"do_start"}

Keyboard(screen) ==
  CASE screen = "settings" -> controlsKeyboard
    [] screen = "prompt" -> afterAnswerKeyboard
    [] screen = "start" -> startKeyboard

\* the user presses `data` on message m of the chat
Pressed(chatId, m, data) ==
  /\ m \in 1..Len(chatMsgs[chatId])
  /\ data \in Keyboard(chatMsgs[chatId][m])

answerCbQuery(hr) == [Log(hr, Call("ack", hr.kind)) EXCEPT !.pc = "answerCbQuery"]

ActionNoop(h, chatId, m) ==
  /\ nEvents < MaxEvents /\ h \in FreeSlots
  /\ Pressed(chatId, m, "noop")
  /\ nEvents' = nEvents + 1
  /\ Commit(Store, Put(h, answerCbQuery(NewHandler("noop", chatId, m))))

ActionDoStart(h, chatId, m) ==
  /\ nEvents < MaxEvents /\ h \in FreeSlots
  /\ Pressed(chatId, m, "do_start")
  /\ nEvents' = nEvents + 1
  /\ LET st1 == resetSession(Store, Put(h, Idle), chatId)
     IN Commit(st1, Put(h, answerCbQuery(NewHandler("do_start", chatId, m))))

ActionNewQuestion(h, chatId, m) ==
  /\ nEvents < MaxEvents /\ h \in FreeSlots
  /\ Pressed(chatId, m, "new_question")
  /\ nEvents' = nEvents + 1
  /\ Commit(Store, Put(h, answerCbQuery(NewHandler("new_question", chatId, m))))

ActionOpenSettings(h, chatId, m) ==
  /\ nEvents < MaxEvents /\ h \in FreeSlots
  /\ Pressed(chatId, m, "open_settings")
  /\ nEvents' = nEvents + 1
  /\ Commit(Store, Put(h, answerCbQuery(NewHandler("open_settings", chatId, m))))

ActionBackToPrompt(h, chatId, m) ==
  /\ nEvents < MaxEvents /\ h \in FreeSlots
  /\ Pressed(chatId, m, "back_to_prompt")
  /\ nEvents' = nEvents + 1
  /\ Commit(Store, Put(h, answerCbQuery(NewHandler("back_to_prompt", chatId, m))))

\* s.<field> = <value>, on the object itself
assignWrongField(st, chatId, button) ==
  [st EXCEPT !.objects[st.settingsByChat[chatId]] =
     [newDefaultSettings EXCEPT ![button.field] = button.value]]

assign(st, chatId, button) ==
  [st EXCEPT !.objects[st.settingsByChat[chatId]][button.field] = button.value]

ActionSetting(h, chatId, m, button) ==
  /\ nEvents < MaxEvents /\ h \in FreeSlots
  /\ button \in SettingButtons
  /\ Pressed(chatId, m, button.data)
  /\ nEvents' = nEvents + 1
  /\ LET hs == Put(h, Idle)
         st1 == ensureSession(Store, hs, chatId)
         st2 == getSettings(st1, hs, chatId)
         st3 == assign(st2, chatId, button)
     IN Commit(st3, Put(h, answerCbQuery([NewHandler("setting", chatId, m)
                                            EXCEPT !.data = button.data])))

\* --------------------------------------------------- transport calls return
\* ok: the call returned; ~ok: it threw
AnswerCbQueryReturns(h, ok) ==
  /\ handlers[h].pc = "answerCbQuery"
  /\ UNCHANGED nEvents
  /\ LET hr == Returned(handlers[h], ok) IN
     IF ~ok THEN Commit(Store, Put(h, Finish(hr, "threw")))
     ELSE CASE hr.kind = "noop" -> Commit(Store, Put(h, Finish(hr, "returned")))
            [] hr.kind = "do_start" ->
                 Commit(Store, Put(h, [Log(hr, Call("reply", "newSession"))
                                         EXCEPT !.pc = "reply"]))
            [] hr.kind = "new_question" ->
                 Commit(Store, Put(h, [Log(hr, Call("reply", "askText"))
                                         EXCEPT !.pc = "reply"]))
            [] hr.kind = "back_to_prompt" -> Commit(Store, Put(h, showPrompt(hr)))
            [] hr.kind \in {"open_settings", "setting"} ->
                 LET r == showControls(Store, handlers, hr)
                 IN Commit(r.st, Put(h, r.hr))

ReplyReturns(h, ok) ==
  /\ handlers[h].pc = "reply"
  /\ UNCHANGED nEvents
  /\ LET hr == Returned(handlers[h], ok) IN
     IF ~ok THEN Commit(Store, Put(h, Finish(hr, "threw")))
     ELSE IF hr.kind \in Resets
          THEN LET r == showControls(Store, handlers, hr)
               IN Commit(r.st, Put(h, r.hr))
          ELSE Commit(Store, Put(h, Finish(hr, "returned")))

\* Telegram accepted the message: it gets the next message_id of the chat
Sent(st, chatId, screen) == [st EXCEPT !.chatMsgs[chatId] = Append(@, screen)]

\* the in-place edit without settingsMsgIdByChat.set(chatId, mid)
EditInPlaceReturnsNoRecord(h, ok) ==
  /\ handlers[h].pc = "editInPlace"
  /\ UNCHANGED nEvents
  /\ LET hr == Returned(handlers[h], ok) IN
     IF ok
     THEN Commit([Store EXCEPT !.chatMsgs[hr.chat][hr.cbMsg] = "settings"],
                 Put(h, afterShowControls(hr)))
     ELSE Commit(Store, Put(h, editExisting(hr)))

EditInPlaceReturns(h, ok) ==
  /\ handlers[h].pc = "editInPlace"
  /\ UNCHANGED nEvents
  /\ LET hr == Returned(handlers[h], ok) IN
     IF ok
     THEN Commit([Store EXCEPT !.chatMsgs[hr.chat][hr.cbMsg] = "settings",
                               !.settingsMsgIdByChat[hr.chat] = hr.cbMsg],
                 Put(h, afterShowControls(hr)))
     ELSE Commit(Store, Put(h, editExisting(hr)))

EditDirectReturns(h, ok) ==
  /\ handlers[h].pc = "editDirect"
  /\ UNCHANGED nEvents
  /\ LET hr == Returned(handlers[h], ok) IN
     IF ok
     THEN Commit([Store EXCEPT !.chatMsgs[hr.chat][hr.existingId] = "settings"],
                 Put(h, afterShowControls(hr)))
     ELSE Commit([Store EXCEPT !.settingsMsgIdByChat[hr.chat] = NoMsg],
                 Put(h, sendControls(hr)))

SendControlsReturns(h, ok) ==
  /\ handlers[h].pc = "sendControls"
  /\ UNCHANGED nEvents
  /\ LET hr == Returned(handlers[h], ok) IN
     IF ok
     THEN LET st1 == Sent(Store, hr.chat, "settings")
          IN Commit([st1 EXCEPT !.settingsMsgIdByChat[hr.chat] = Len(st1.chatMsgs[hr.chat])],
                    Put(h, afterShowControls(hr)))
     ELSE Commit(Store, Put(h, Finish(hr, "threw")))

ShowStartScreenReturns(h, ok) ==
  /\ handlers[h].pc = "showStartScreen"
  /\ UNCHANGED nEvents
  /\ LET hr == Returned(handlers[h], ok) IN
     IF ok THEN Commit(Sent(Store, hr.chat, "start"), Put(h, Finish(hr, "returned")))
     ELSE Commit(Store, Put(h, Finish(hr, "threw")))

\* ------------------------------------------------------------ text builders
\* Math.round(x * 0.75) for a natural x
Round75(x) == (3 * x + 2) \div 4

buildConstrainedUserPrompt(userText, s) ==
  [kind |-> "constrained",
   text |-> Trim(userText),
   dir |-> [format |-> IF s.format = "json" THEN "json" ELSE "list",
            words |-> Min(WordsCeiling, Round75(s.max_tokens)),
            stop |-> IF s.use_stop THEN STOP_MARKER ELSE "immediately"],
   len |-> Len(Trim(userText)) + 5]

constrainedParams(s) ==
  [temperature |-> s.temperature, max_tokens |-> s.max_tokens,
   frequency_penalty |-> s.frequency_penalty,
   presence_penalty |-> s.presence_penalty,
   stop |-> IF s.use_stop THEN <<STOP_MARKER>> ELSE <<>>,
   undefined |-> IF s.use_stop THEN {} ELSE {"stop"}]

UNRESTRICTED_PARAMS ==
  [temperature |-> UnrestrictedTemperature, max_tokens |-> UnrestrictedMaxTokens,
   frequency_penalty |-> 0, presence_penalty |-> 0, stop |-> <<>>,
   undefined |-> {"stop"}]

ParamKeys ==
  {"temperature", "max_tokens", "frequency_penalty", "presence_penalty", "stop"}

\* the second request built from the history and the constrained prompt
SecondTypingReturnsConstrained(h, ok) ==
  /\ handlers[h].pc = "typing2"
  /\ UNCHANGED nEvents
  /\ LET hr == Returned(handlers[h], ok) IN
     IF ~ok THEN Commit(Store, Put(h, Finish(hr, "threw")))
     ELSE Commit(Store, Put(h,
            [Log(hr, [Call("llm", "unrestricted") EXCEPT
                        !.messages = Append(arrays[hr.history],
                          Message("user", buildConstrainedUserPrompt(hr.userText,
                                                                     objects[hr.s])))])
               EXCEPT !.pc = "unrestricted"]))

\* callLLM up to its await: the payload without its undefined keys
callLLM(hr, what, messages, params) ==
  [Log(hr, [Call("llm", what) EXCEPT
              !.messages = messages,
              !.payload = [k \in ParamKeys \ params.undefined |-> params[k]]])
     EXCEPT !.pc = what]

\* the comparison with >= in the place of >
safeTelegramTextInclusive(text) ==
  IF text.len >= TextCeiling
  THEN [of |-> text, first |-> TextCeiling, marker |-> TRUE]
  ELSE [of |-> text, first |-> text.len, marker |-> FALSE]

safeTelegramText(text) ==
  IF text.len > TextCeiling
  THEN [of |-> text, first |-> TextCeiling, marker |-> TRUE]
  ELSE [of |-> text, first |-> text.len, marker |-> FALSE]

\* -------------------------------------------------------- main text handler
UserMessage(userText) == Message("user", Plain("user", userText))

\* hasDialog && hasSettings
hasSessionAlways(st, chatId) == TRUE

hasSession(st, chatId) ==
  st.dialogs[chatId] # NoRef /\ st.settingsByChat[chatId] # NoRef

\* the text handler with the user message pushed before the completion calls
OnTextPushFirst(h, chatId, raw) ==
  /\ nEvents < MaxEvents /\ h \in FreeSlots
  /\ nEvents' = nEvents + 1
  /\ LET userText == Trim(raw)
         hr == [NewHandler("text", chatId, NoMsg) EXCEPT !.ctxText = raw,
                                                         !.userText = userText]
         hs == Put(h, Idle)
     IN IF userText = <<>> \/ StartsWithSlash(userText)
        THEN Commit(Store, Put(h, Finish(hr, "returned")))
        ELSE IF ~hasSession(Store, chatId)
        THEN Commit(Store, Put(h, showStartScreen(hr)))
        ELSE LET st2 == getMessages(getSettings(Store, hs, chatId), hs, chatId)
                 history == st2.dialogs[chatId]
                 st3 == [st2 EXCEPT !.arrays[history] = Append(@, UserMessage(userText))]
                 hr1 == [hr EXCEPT !.s = st2.settingsByChat[chatId],
                                   !.history = history,
                                   !.baseMessages = st3.arrays[history]]
             IN Commit(st3, Put(h, [Log(hr1, Call("typing", "first"))
                                      EXCEPT !.pc = "typing1"]))

OnText(h, chatId, raw) ==
  /\ nEvents < MaxEvents /\ h \in FreeSlots
  /\ nEvents' = nEvents + 1
  /\ LET userText == Trim(raw)
         hr == [NewHandler("text", chatId, NoMsg) EXCEPT !.ctxText = raw,
                                                         !.userText = userText]
         hs == Put(h, Idle)
     IN IF userText = <<>> \/ StartsWithSlash(userText)
        THEN Commit(Store, Put(h, Finish(hr, "returned")))
        ELSE IF ~hasSession(Store, chatId)
        THEN Commit(Store, Put(h, showStartScreen(hr)))
        ELSE LET st1 == getSettings(Store, hs, chatId)
                 st2 == getMessages(st1, hs, chatId)
                 history == st2.dialogs[chatId]
                 hr1 == [hr EXCEPT !.s = st1.settingsByChat[chatId],
                                   !.history = history,
                                   !.baseMessages =
                                      st2.arrays[history] \o <<UserMessage(userText)>>]
             IN Commit(st2, Put(h, [Log(hr1, Call("typing", "first"))
                                      EXCEPT !.pc = "typing1"]))

\* catch (e): console.error(e); await ctx.reply(apology)
catch(hr) ==
  [Log(hr, Call("reply", "apology")) EXCEPT !.pc = "apology", !.caught = TRUE]

FirstTypingReturns(h, ok) ==
  /\ handlers[h].pc = "typing1"
  /\ UNCHANGED nEvents
  /\ LET hr == Returned(handlers[h], ok) IN
     IF ~ok THEN Commit(Store, Put(h, Finish(hr, "threw")))
     ELSE LET constrainedUser == buildConstrainedUserPrompt(hr.userText, objects[hr.s])
              constrainedMessages ==
                arrays[hr.history] \o <<Message("user", constrainedUser)>>
          IN Commit(Store, Put(h, callLLM(hr, "constrained", constrainedMessages,
                                          constrainedParams(objects[hr.s]))))

\* what the completion endpoint can do with a request
AnswerLens == {TextCeiling, TextCeiling + 1}

Outcomes ==
  {[status |-> "throws", len |-> 0], [status |-> "empty", len |-> 0]}
    \cup {[status |-> "content", len |-> n] : n \in AnswerLens}

\* res.choices?.[0]?.message?.content ?? "(pustoj otvet)"
Completion(messages, outcome) ==
  IF outcome.status = "content"
  THEN [kind |-> "answer", text |-> messages[Len(messages)].content.text,
        dir |-> messages[Len(messages)].content.dir, len |-> outcome.len]
  ELSE EmptyAnswer

Pending(hr) == hr.out[Len(hr.out)]

\* the constrained call issued once more after it threw
ConstrainedReturnsRetry(h, outcome) ==
  /\ handlers[h].pc = "constrained"
  /\ UNCHANGED nEvents
  /\ LET hr == Returned(handlers[h], outcome.status # "throws") IN
     IF outcome.status = "throws"
     THEN IF Len(hr.out) < 3
          THEN Commit(Store, Put(h, callLLM(hr, "constrained", Pending(hr).messages,
                                            constrainedParams(objects[hr.s]))))
          ELSE Commit(Store, Put(h, catch(hr)))
     ELSE LET constrainedAnswerRaw == Completion(Pending(hr).messages, outcome)
          IN Commit(Store, Put(h,
               [Log(hr, [Call("reply", "constrained") EXCEPT
                           !.summary = prettySettings(objects[hr.s]),
                           !.answer = safeTelegramText(constrainedAnswerRaw)])
                  EXCEPT !.pc = "replyConstrained"]))

ConstrainedReturns(h, outcome) ==
  /\ handlers[h].pc = "constrained"
  /\ UNCHANGED nEvents
  /\ LET hr == Returned(handlers[h], outcome.status # "throws") IN
     IF outcome.status = "throws" THEN Commit(Store, Put(h, catch(hr)))
     ELSE LET constrainedAnswerRaw == Completion(Pending(hr).messages, outcome)
          IN Commit(Store, Put(h,
               [Log(hr, [Call("reply", "constrained") EXCEPT
                           !.summary = prettySettings(objects[hr.s]),
                           !.answer = safeTelegramText(constrainedAnswerRaw)])
                  EXCEPT !.pc = "replyConstrained"]))

ConstrainedReplyReturns(h, ok) ==
  /\ handlers[h].pc = "replyConstrained"
  /\ UNCHANGED nEvents
  /\ LET hr == Returned(handlers[h], ok) IN
     IF ~ok THEN Commit(Store, Put(h, catch(hr)))
     ELSE Commit(Store, Put(h, [Log(hr, Call("typing", "second"))
                                  EXCEPT !.pc = "typing2"]))

SecondTypingReturns(h, ok) ==
  /\ handlers[h].pc = "typing2"
  /\ UNCHANGED nEvents
  /\ LET hr == Returned(handlers[h], ok) IN
     IF ~ok THEN Commit(Store, Put(h, catch(hr)))
     ELSE Commit(Store, Put(h, callLLM(hr, "unrestricted", hr.baseMessages,
                                       UNRESTRICTED_PARAMS)))

UnrestrictedReturns(h, outcome) ==
  /\ handlers[h].pc = "unrestricted"
  /\ UNCHANGED nEvents
  /\ LET hr == Returned(handlers[h], outcome.status # "throws") IN
     IF outcome.status = "throws" THEN Commit(Store, Put(h, catch(hr)))
     ELSE LET unrestrictedAnswerRaw == Completion(Pending(hr).messages, outcome)
          IN Commit(Store, Put(h,
               [Log(hr, [Call("reply", "unrestricted") EXCEPT
                           !.answer = safeTelegramText(unrestrictedAnswerRaw)])
                  EXCEPT !.pc = "replyUnrestricted",
                         !.unrestrictedAnswerRaw = unrestrictedAnswerRaw]))

\* history.push(user); history.push(assistant)
pushUserOnly(st, history, userText, answer) ==
  [st EXCEPT !.arrays[history] = Append(@, UserMessage(userText))]

\* the two pushes in the other order
pushAssistantFirst(st, history, userText, answer) ==
  [st EXCEPT !.arrays[history] =
     Append(Append(@, Message("assistant", answer)), UserMessage(userText))]

push(st, history, userText, answer) ==
  [st EXCEPT !.arrays[history] =
     Append(Append(@, UserMessage(userText)), Message("assistant", answer))]

\* the pushes made to the array the map holds when the reply has returned
UnrestrictedReplyReturnsToCurrent(h, ok) ==
  /\ handlers[h].pc = "replyUnrestricted"
  /\ UNCHANGED nEvents
  /\ LET hr == Returned(handlers[h], ok) IN
     IF ~ok THEN Commit(Store, Put(h, catch(hr)))
     ELSE LET st1 == getMessages(Store, handlers, hr.chat)
          IN Commit(push(st1, st1.dialogs[hr.chat], hr.userText, hr.unrestrictedAnswerRaw),
                    Put(h, showPrompt(hr)))

UnrestrictedReplyReturns(h, ok) ==
  /\ handlers[h].pc = "replyUnrestricted"
  /\ UNCHANGED nEvents
  /\ LET hr == Returned(handlers[h], ok) IN
     IF ~ok THEN Commit(Store, Put(h, catch(hr)))
     ELSE Commit(push(Store, hr.history, hr.userText, hr.unrestrictedAnswerRaw),
                 Put(h, showPrompt(hr)))

\* the catch block without its showPrompt
ApologyReturnsNoPrompt(h, ok) ==
  /\ handlers[h].pc = "apology"
  /\ UNCHANGED nEvents
  /\ Commit(Store, Put(h, Finish(Returned(handlers[h], ok), "returned")))

ApologyReturns(h, ok) ==
  /\ handlers[h].pc = "apology"
  /\ UNCHANGED nEvents
  /\ LET hr == Returned(handlers[h], ok) IN
     IF ~ok THEN Commit(Store, Put(h, Finish(hr, "threw")))
     ELSE Commit(Store, Put(h, showPrompt(hr)))

\* showPrompt is awaited last everywhere; in the text handler's try block a
\* throw is caught
ShowPromptReturns(h, ok) ==
  /\ handlers[h].pc = "showPrompt"
  /\ UNCHANGED nEvents
  /\ LET hr == Returned(handlers[h], ok) IN
     IF ok THEN Commit(Sent(Store, hr.chat, "prompt"), Put(h, Finish(hr, "returned")))
     ELSE IF hr.kind = "text" /\ ~hr.caught
          THEN Commit(Store, Put(h, catch(hr)))
          ELSE Commit(Store, Put(h, Finish(hr, "threw")))

\* ------------------------------------------------------------ specification
RawTexts ==
  { <<" ">>, <<" ", "hello", " ">>, <<" ", "/", "help">> }

\* the dispatcher starts a handler in the lowest free slot
NextSlot(h) == h \in FreeSlots /\ \A g \in FreeSlots : h <= g

\* chat ids are interchangeable: an id is first used once the id below it is in use
InUse(c) ==
  \/ dialogs[c] # NoRef \/ settingsByChat[c] # NoRef \/ chatMsgs[c] # <<>>
  \/ \E h \in Slots : handlers[h].chat = c

Updates == {c \in Chats : c = 1 \/ InUse(c - 1)}

Next ==
  \/ \E h \in Slots, c \in Updates : NextSlot(h) /\ BotStart(h, c)
  \/ \E h \in Slots, c \in Updates : NextSlot(h) /\ CommandControls(h, c)
  \/ \E h \in Slots, c \in Updates : NextSlot(h) /\ CommandReset(h, c)
  \/ \E h \in Slots, c \in Updates : \E m \in DOMAIN chatMsgs[c] :
       NextSlot(h) /\ ActionNoop(h, c, m)
  \/ \E h \in Slots, c \in Updates : \E m \in DOMAIN chatMsgs[c] :
       NextSlot(h) /\ ActionDoStart(h, c, m)
  \/ \E h \in Slots, c \in Updates : \E m \in DOMAIN chatMsgs[c] :
       NextSlot(h) /\ ActionNewQuestion(h, c, m)
  \/ \E h \in Slots, c \in Updates : \E m \in DOMAIN chatMsgs[c] :
       NextSlot(h) /\ ActionOpenSettings(h, c, m)
  \/ \E h \in Slots, c \in Updates : \E m \in DOMAIN chatMsgs[c] :
       NextSlot(h) /\ ActionBackToPrompt(h, c, m)
  \/ \E h \in Slots, c \in Updates : \E m \in DOMAIN chatMsgs[c], b \in SettingButtons :
       NextSlot(h) /\ ActionSetting(h, c, m, b)
  \/ \E h \in Slots, c \in Updates, raw \in RawTexts : NextSlot(h) /\ OnText(h, c, raw)
  \/ \E h \in Slots, ok \in BOOLEAN : AnswerCbQueryReturns(h, ok)
  \/ \E h \in Slots, ok \in BOOLEAN : ReplyReturns(h, ok)
  \/ \E h \in Slots, ok \in BOOLEAN : EditInPlaceReturns(h, ok)
  \/ \E h \in Slots, ok \in BOOLEAN : EditDirectReturns(h, ok)
  \/ \E h \in Slots, ok \in BOOLEAN : SendControlsReturns(h, ok)
  \/ \E h \in Slots, ok \in BOOLEAN : ShowStartScreenReturns(h, ok)
  \/ \E h \in Slots, ok \in BOOLEAN : FirstTypingReturns(h, ok)
  \/ \E h \in Slots, o \in Outcomes : ConstrainedReturns(h, o)
  \/ \E h \in Slots, ok \in BOOLEAN : ConstrainedReplyReturns(h, ok)
  \/ \E h \in Slots, ok \in BOOLEAN : SecondTypingReturns(h, ok)
  \/ \E h \in Slots, o \in Outcomes : UnrestrictedReturns(h, o)
  \/ \E h \in Slots, ok \in BOOLEAN : UnrestrictedReplyReturns(h, ok)
  \/ \E h \in Slots, ok \in BOOLEAN : ApologyReturns(h, ok)
  \/ \E h \in Slots, ok \in BOOLEAN : ShowPromptReturns(h, ok)

Spec == Init /\ [][Next]_vars

\* one update at a time: the next update arrives when no handler is running
Quiet == \A h \in Slots : handlers[h].pc = "idle"

NextSeq == Next /\ (nEvents' # nEvents => Quiet)

SpecSeq == Init /\ [][NextSeq]_vars

\* every edit attempt succeeds: no editMessageText call throws
EditThrows ==
  \E h \in Slots :
    \/ handlers[h].pc = "editInPlace" /\ handlers'[h].pc \in {"editDirect", "sendControls"}
    \/ handlers[h].pc = "editDirect" /\ handlers'[h].pc = "sendControls"

NextEditsOk == Next /\ ~EditThrows

SpecEditsOk == Init /\ [][NextEditsOk]_vars

\* every transport call succeeds and every awaited call returns: an update
\* arrives (MaxLiveEvents of them), or a suspended handler resumes
Arrives == Next /\ nEvents' # nEvents /\ nEvents < MaxLiveEvents

TransportReturns(h, ok) ==
  \/ AnswerCbQueryReturns(h, ok)
  \/ ReplyReturns(h, ok)
  \/ EditInPlaceReturns(h, ok)
  \/ EditDirectReturns(h, ok)
  \/ SendControlsReturns(h, ok)
  \/ ShowStartScreenReturns(h, ok)
  \/ FirstTypingReturns(h, ok)
  \/ ConstrainedReplyReturns(h, ok)
  \/ SecondTypingReturns(h, ok)
  \/ UnrestrictedReplyReturns(h, ok)
  \/ ApologyReturns(h, ok)
  \/ ShowPromptReturns(h, ok)

CompletionReturns(h) ==
  \E o \in Outcomes : ConstrainedReturns(h, o) \/ UnrestrictedReturns(h, o)

Resumes(h) == TransportReturns(h, TRUE) \/ CompletionReturns(h)

NextReliable == Arrives \/ \E h \in Slots : Resumes(h)

SpecReliable ==
  Init /\ [][NextReliable]_vars /\ \A h \in Slots : WF_vars(Resumes(h))

\* ------------------------------------------------------------------ claims
Text(h) == handlers[h].kind = "text"

\* handler h takes the step
Steps(h) == handlers'[h] # handlers[h]

IsReply(e, what) == e.op = "reply" /\ e.what = what

\* content of the constrained exchange: the constrained prompt, or an answer
\* to it
ConstrainedContent(content) ==
  content.kind = "constrained" \/ content.dir # NoDirectives

\* the step of the text handler that follows the unrestricted reply
AppendStep(h) ==
  handlers[h].pc = "replyUnrestricted" /\ handlers'[h].pc = "showPrompt"

\* no conversation's history is replaced or changed in the step
HistoriesUnchanged ==
  \A c \in Chats :
    /\ dialogs'[c] = dialogs[c]
    /\ dialogs[c] # NoRef => arrays'[dialogs[c]] = arrays[dialogs[c]]

C1_NoConstrainedInHistory ==
  \A r \in Refs : \A i \in DOMAIN arrays[r] : ~ConstrainedContent(arrays[r][i].content)

C1_Step ==
  /\ \A h \in Slots :
       AppendStep(h) =>
         LET hr == handlers[h] IN
         /\ ~hr.caught
         /\ arrays'[hr.history] =
              arrays[hr.history]
                \o << Message("user", Plain("user", Trim(hr.ctxText))),
                      Message("assistant", hr.out[Len(hr.out)].answer.of) >>
         /\ hr.out[Len(hr.out)].what = "unrestricted"
         /\ \A r \in Refs \ {hr.history} : arrays'[r] = arrays[r]
  /\ \A r \in Refs :
       (arrays[r] # <<>> /\ Len(arrays'[r]) > Len(arrays[r])) =>
         \E h \in Slots : AppendStep(h) /\ handlers[h].history = r

\* C1: a text message handled successfully appends to the history exactly two
\* entries, the trimmed user text and then the unrestricted answer, a history
\* grows in no other step, and no history ever holds the constrained prompt
\* or the constrained answer.
C1_AppendsUserThenUnrestricted == [](C1_NoConstrainedInHistory) /\ [][C1_Step]_vars

C1_Witness ==
  \E h \in Slots :
    LET hr == handlers[h] IN
    /\ Text(h) /\ hr.pc = "showPrompt" /\ ~hr.caught
    /\ dialogs[hr.chat] = hr.history
    /\ Len(arrays[hr.history]) = 3
    /\ arrays[hr.history][2] = Message("user", Plain("user", <<"hello">>))
    /\ arrays[hr.history][3].role = "assistant"
    /\ arrays[hr.history][3].content.kind = "answer"

LLMThrew(hr) == \E i \in DOMAIN hr.out : hr.out[i].op = "llm" /\ hr.out[i].res = "threw"

C2_Calls ==
  \A h \in Slots :
    LET hr == handlers[h] IN
    \A i \in DOMAIN hr.out :
      (hr.out[i].op = "llm" /\ hr.out[i].res = "threw") =>
        /\ hr.pc \in {"apology", "showPrompt"}
        /\ Len(hr.out) \in {i + 1, i + 2}
        /\ IsReply(hr.out[i + 1], "apology")
        /\ Cardinality({j \in DOMAIN hr.out : IsReply(hr.out[j], "apology")}) = 1
        /\ hr.pc = "showPrompt" <=>
             /\ Len(hr.out) = i + 2
             /\ IsReply(hr.out[i + 2], "prompt")
             /\ hr.out[i + 1].res = "ok"

C2_Step ==
  \A h \in Slots :
    (Steps(h) /\ (Text(h) \/ handlers'[h].kind = "text") /\ ~AppendStep(h)) =>
      /\ HistoriesUnchanged
      /\ (handlers[h].history # NoRef /\ handlers'[h].history # NoRef) =>
           /\ handlers'[h].history = handlers[h].history
           /\ arrays'[handlers[h].history] = arrays[handlers[h].history]

\* C2: when a completion call of a text handler throws, the handler replies
\* with one apology and then renders the Prompt screen, and no step of a text
\* handler other than the append after both answers changes a history.
C2_FailureLeavesHistory == [](C2_Calls) /\ [][C2_Step]_vars

C2_Witness ==
  \E h \in Slots :
    LET hr == handlers[h] IN
    /\ Text(h) /\ hr.pc = "showPrompt" /\ hr.caught /\ LLMThrew(hr)
    /\ hr.out[Len(hr.out) - 2].what = "unrestricted"
    /\ dialogs[hr.chat] = hr.history
    /\ arrays[hr.history] = <<Message("system", DEFAULT_SYSTEM)>>

\* C3: at every await of every handler a chat id has a history exactly when
\* it has settings.
C3_HistoryIffSettings ==
  \A c \in Chats : dialogs[c] = NoRef <=> settingsByChat[c] = NoRef

C3_Witness ==
  /\ \E c \in Chats : dialogs[c] # NoRef /\ settingsByChat[c] # NoRef
  /\ \E c \in Chats : dialogs[c] = NoRef /\ settingsByChat[c] = NoRef
  /\ \E h \in Slots : handlers[h].kind = "reset" /\ dialogs[handlers[h].chat] # NoRef
  /\ nEvents = MaxEvents

LlmCalls(hr, what) == {i \in DOMAIN hr.out : hr.out[i].op = "llm" /\ hr.out[i].what = what}

C4_Calls ==
  \A h \in Slots :
    LET hr == handlers[h] IN
    /\ Cardinality(LlmCalls(hr, "constrained")) <= 1
    /\ Cardinality(LlmCalls(hr, "unrestricted")) <= 1
    /\ Cardinality({i \in DOMAIN hr.out :
                      hr.out[i].op = "llm" /\ hr.out[i].res = "pending"}) <= 1
    /\ \A j \in LlmCalls(hr, "unrestricted") :
         /\ \E i \in LlmCalls(hr, "constrained") : i < j /\ hr.out[i].res = "ok"
         /\ hr.out[j].messages = hr.baseMessages
         /\ hr.baseMessages[Len(hr.baseMessages)] =
              Message("user", Plain("user", Trim(hr.ctxText)))
         /\ \A k \in DOMAIN hr.out[j].messages :
              ~ConstrainedContent(hr.out[j].messages[k].content)

C4_Step ==
  \A h \in Slots :
    (handlers[h].pc = "idle" /\ handlers'[h].pc = "typing1") =>
      handlers'[h].baseMessages =
        Append(arrays[dialogs[handlers'[h].chat]],
               Message("user", Plain("user", Trim(handlers'[h].ctxText))))

\* C4: a text handler issues the constrained request first and the
\* unrestricted one only after the constrained call returned, never has two
\* requests pending, and the unrestricted request carries the history read when
\* the message arrived plus the trimmed user text, nothing of the constrained
\* exchange.
C4_SequentialRequests == [](C4_Calls) /\ [][C4_Step]_vars

C4_Witness ==
  \E h \in Slots :
    LET hr == handlers[h] IN
    /\ Text(h) /\ hr.pc = "unrestricted"
    /\ dialogs[hr.chat] = hr.history
    /\ Len(arrays[hr.history]) = Len(hr.baseMessages) + 1

C5_Calls ==
  \A h \in Slots :
    handlers[h].pc = "showStartScreen" =>
      /\ Text(h)
      /\ Len(handlers[h].out) = 1
      /\ IsReply(handlers[h].out[1], "start")

MapsUnchanged ==
  /\ dialogs' = dialogs /\ settingsByChat' = settingsByChat
  /\ settingsMsgIdByChat' = settingsMsgIdByChat
  /\ arrays' = arrays /\ objects' = objects

C5_Step ==
  \A h \in Slots :
    /\ ( /\ handlers[h].pc = "idle" /\ handlers'[h].kind = "text"
         /\ \/ dialogs[handlers'[h].chat] = NoRef
            \/ settingsByChat[handlers'[h].chat] = NoRef )
       => (handlers'[h].pc = "showStartScreen" /\ MapsUnchanged)
    /\ (handlers[h].pc = "showStartScreen" /\ Steps(h))
       => (handlers'[h] = Idle /\ MapsUnchanged)

\* C5: a text message for a chat id without state makes one call, the reply
\* with the Start screen: no completion request, no answer reply, and neither
\* its arrival nor its end changes the session maps.
C5_NoStateShowsStart == [](C5_Calls) /\ [][C5_Step]_vars

C5_Witness ==
  \E h \in Slots :
    /\ handlers[h].pc = "showStartScreen"
    /\ dialogs[handlers[h].chat] = NoRef
    /\ settingsByChat[handlers[h].chat] = NoRef


ButtonOf(data) == CHOOSE b \in SettingButtons : b.data = data

C6_Step ==
  \A h \in Slots :
    /\ ( /\ handlers[h].pc = "idle" /\ handlers'[h].kind = "setting"
         /\ hasSession(Store, handlers'[h].chat) )
       => LET b == ButtonOf(handlers'[h].data)
              r == settingsByChat[handlers'[h].chat]
          IN /\ objects'[r][b.field] = b.value
             /\ \A f \in DOMAIN objects[r] \ {b.field} : objects'[r][f] = objects[r][f]
             /\ \A q \in Refs \ {r} : objects'[q] = objects[q]
             /\ settingsByChat' = settingsByChat
             /\ settingsMsgIdByChat' = settingsMsgIdByChat
             /\ dialogs' = dialogs /\ arrays' = arrays
    /\ (handlers[h].kind = "setting" /\ Steps(h))
       => /\ objects' = objects /\ settingsByChat' = settingsByChat
          /\ dialogs' = dialogs /\ arrays' = arrays

\* C6: the handler of a settings button, in a chat that has state, assigns the
\* button's value to the button's field of the chat's settings and changes no
\* other field, no other settings object and no history, neither then nor
\* while it renders the Settings screen.
C6_OnlyTargetedField == [][C6_Step]_vars

C6_Witness ==
  \E h \in Slots :
    LET hr == handlers[h] IN
    /\ hr.kind = "setting" /\ hr.data = "len_256" /\ hr.pc = "answerCbQuery"
    /\ objects[settingsByChat[hr.chat]] =
         [newDefaultSettings EXCEPT !.max_tokens = 256, !.format = "json"]
    /\ arrays[dialogs[hr.chat]] = <<Message("system", DEFAULT_SYSTEM)>>

FreshState(c) ==
  /\ dialogs'[c] # NoRef /\ settingsByChat'[c] # NoRef
  /\ arrays'[dialogs'[c]] = <<Message("system", DEFAULT_SYSTEM)>>
  /\ objects'[settingsByChat'[c]] =
       [max_tokens |-> 128, format |-> "bullets", temperature |-> 7,
        frequency_penalty |-> 0, presence_penalty |-> 0, use_stop |-> TRUE]
  /\ settingsMsgIdByChat'[c] = NoMsg

C7_Step ==
  /\ \A h \in Slots :
       (handlers[h].pc = "idle" /\ handlers'[h].kind \in Resets) =>
         /\ FreshState(handlers'[h].chat)
         /\ \A g \in Slots :
              /\ handlers'[g].history # dialogs'[handlers'[h].chat]
              /\ handlers'[g].s # settingsByChat'[handlers'[h].chat]
  /\ \A c \in Chats : (dialogs[c] = NoRef /\ dialogs'[c] # NoRef) => FreshState(c)

\* C7: the first step of the start, reset and do_start handlers leaves the chat
\* with a new history holding only the system message, new settings equal to
\* the defaults and no recorded settings message, whatever the chat's state
\* was; the same state a chat id gets when its session is first created.
C7_ResetGivesFreshState == [][C7_Step]_vars

C7_Witness ==
  \E h \in Slots, g \in Slots :
    /\ handlers[h].kind = "reset" /\ handlers[h].pc = "reply"
    /\ Text(g) /\ handlers[g].chat = handlers[h].chat
    /\ handlers[g].history \notin {NoRef, dialogs[handlers[h].chat]}
    /\ "settings" \in {chatMsgs[handlers[h].chat][m] : m \in DOMAIN chatMsgs[handlers[h].chat]}

\* the scenario of C8: the conversation was [system] when "hello" arrived, and
\* the unrestricted completion call threw
C8_Scenario(h) ==
  LET hr == handlers[h] IN
  /\ Text(h)
  /\ hr.baseMessages = << Message("system", DEFAULT_SYSTEM),
                          Message("user", Plain("user", <<"hello">>)) >>
  /\ \E i \in LlmCalls(hr, "unrestricted") : hr.out[i].res = "threw"

\* C8 as stated: after the failing unrestricted call the history is
\* [system, user:"hello"].
C8_Original ==
  \A h \in Slots :
    C8_Scenario(h) =>
      arrays[dialogs[handlers[h].chat]] =
        << Message("system", DEFAULT_SYSTEM), Message("user", Plain("user", <<"hello">>)) >>

\* C8, amended: in that scenario, one update being handled at a time, one
\* apology is sent, then the Prompt screen is rendered, and the history is
\* [system]: the user message is not in it.
C8_FailureKeepsSystemOnly ==
  \A h \in Slots :
    C8_Scenario(h) =>
      LET hr == handlers[h] IN
      /\ dialogs[hr.chat] = hr.history
      /\ arrays[dialogs[hr.chat]] = <<Message("system", DEFAULT_SYSTEM)>>
      /\ Cardinality({j \in DOMAIN hr.out : IsReply(hr.out[j], "apology")}) = 1
      /\ hr.pc \in {"apology", "showPrompt"}
      /\ hr.pc = "showPrompt" =>
           /\ IsReply(hr.out[Len(hr.out)], "prompt")
           /\ IsReply(hr.out[Len(hr.out) - 1], "apology")
           /\ hr.out[Len(hr.out) - 1].res = "ok"

C8_Witness ==
  \E h \in Slots : C8_Scenario(h) /\ handlers[h].pc = "showPrompt"

Edits(hr, what) == {i \in DOMAIN hr.out : hr.out[i].op = "edit" /\ hr.out[i].what = what}

Sends(hr) == {i \in DOMAIN hr.out : IsReply(hr.out[i], "settings")}

InShowControls(hr) == hr.pc \in {"editInPlace", "editDirect", "sendControls"}

C9_Calls ==
  \A h \in Slots :
    LET hr == handlers[h] IN
    /\ Cardinality(Sends(hr)) <= 1
    /\ Cardinality(Edits(hr, "inPlace")) <= 1
    /\ Cardinality(Edits(hr, "direct")) <= 1
    /\ \A i \in Edits(hr, "inPlace") : IsCallback(hr) /\ hr.out[i].target = hr.cbMsg
    /\ \A i \in Edits(hr, "direct") :
         /\ hr.existingId # NoMsg /\ hr.out[i].target = hr.existingId
         /\ IsCallback(hr) =>
              \E j \in Edits(hr, "inPlace") : j < i /\ hr.out[j].res = "threw"
    /\ \A i \in Sends(hr) :
         /\ IsCallback(hr) =>
              \E j \in Edits(hr, "inPlace") : j < i /\ hr.out[j].res = "threw"
         /\ hr.existingId # NoMsg =>
              \E j \in Edits(hr, "direct") : j < i /\ hr.out[j].res = "threw"
         /\ \A j \in DOMAIN hr.out : hr.out[j].op = "edit" => hr.out[j].res = "threw"

C9_Step ==
  \A h \in Slots :
    LET c == handlers[h].chat IN
    /\ (~InShowControls(handlers[h]) /\ InShowControls(handlers'[h]))
       => handlers'[h].existingId = settingsMsgIdByChat[handlers'[h].chat]
    /\ (handlers[h].pc = "editDirect" /\ handlers'[h].pc = "sendControls")
       => settingsMsgIdByChat'[c] = NoMsg
    /\ (handlers[h].pc = "sendControls" /\ Steps(h))
       => \/ /\ chatMsgs'[c] = Append(chatMsgs[c], "settings")
             /\ settingsMsgIdByChat'[c] = Len(chatMsgs'[c])
          \/ /\ chatMsgs' = chatMsgs
             /\ settingsMsgIdByChat' = settingsMsgIdByChat
             /\ handlers'[h] = Idle

\* C9: showControls sends a new settings message, at most one, only after every
\* edit it could try has thrown: the in-place edit when the update is a button
\* press, the direct edit when a message id was recorded at its start; a failed
\* direct edit removes the recorded id, and the id of a new message is recorded.
C9_SendOnlyAfterEditsFailed == [](C9_Calls) /\ [][C9_Step]_vars

C9_Witness ==
  \E h \in Slots :
    LET hr == handlers[h] IN
    /\ hr.pc = "sendControls" /\ IsCallback(hr) /\ hr.existingId # NoMsg
    /\ settingsMsgIdByChat[hr.chat] = NoMsg
    /\ Edits(hr, "inPlace") # {} /\ Edits(hr, "direct") # {}

\* C10 as stated: no handler starts while another is suspended at an await.
C10_Original == Cardinality({h \in Slots : Running(h)}) <= 1

C10_Step == Cardinality({h \in Slots : Steps(h)}) <= 1

C10_AtAwait ==
  \A c \in Chats :
    /\ dialogs[c] # NoRef => Len(arrays[dialogs[c]]) % 2 = 1
    /\ \A h \in Slots : handlers[h].history # NoRef => Len(arrays[handlers[h].history]) % 2 = 1

\* C10, amended: handlers interleave at their awaits, and only the code between
\* two awaits runs alone: a step is a step of one handler, and at every await
\* every history holds the system message and whole exchanges.
C10_SegmentsAreAtomic == [](C10_AtAwait) /\ [][C10_Step]_vars

C10_Witness ==
  \E h \in Slots, g \in Slots :
    /\ h # g /\ Text(h) /\ Text(g)
    /\ handlers[h].chat = handlers[g].chat
    /\ handlers[h].pc = "constrained" /\ handlers[g].pc = "showPrompt"
    /\ Len(arrays[dialogs[handlers[h].chat]]) = 3

AllLlm(hr) == {i \in DOMAIN hr.out : hr.out[i].op = "llm"}

C11_Calls ==
  \A h \in Slots :
    LET hr == handlers[h] IN
    /\ ~Text(h) => AllLlm(hr) = {}
    /\ Cardinality(LlmCalls(hr, "constrained")) <= 1
    /\ Cardinality(LlmCalls(hr, "unrestricted")) <= 1
    /\ \A i \in AllLlm(hr) :
         hr.out[i].res = "threw" => \A j \in AllLlm(hr) : j <= i
    /\ hr.pc \in {"constrained", "replyConstrained", "typing2", "unrestricted",
                  "replyUnrestricted"}
         => Cardinality(LlmCalls(hr, "constrained")) = 1
    /\ (hr.pc \in {"unrestricted", "replyUnrestricted"}
          \/ (Text(h) /\ hr.pc = "showPrompt" /\ ~hr.caught))
         => /\ Cardinality(LlmCalls(hr, "constrained")) = 1
            /\ Cardinality(LlmCalls(hr, "unrestricted")) = 1

C11_Step ==
  \A h \in Slots :
    Cardinality(AllLlm(handlers'[h])) > Cardinality(AllLlm(handlers[h])) =>
      /\ Cardinality(AllLlm(handlers'[h])) = Cardinality(AllLlm(handlers[h])) + 1
      /\ \/ handlers[h].pc = "typing1" /\ handlers'[h].pc = "constrained"
         \/ handlers[h].pc = "typing2" /\ handlers'[h].pc = "unrestricted"
      /\ \A i \in AllLlm(handlers[h]) : handlers[h].out[i].res = "ok"

Before(hr) == SubSeq(hr.out, 1, Len(hr.out) - 1)

RepliedOk(hr, what) ==
  \E i \in DOMAIN Before(hr) : IsReply(hr.out[i], what) /\ hr.out[i].res = "ok"

C12_Order ==
  \A h \in Slots :
    LET hr == handlers[h] IN
    (Text(h) /\ hr.pc = "showPrompt") =>
      /\ IsReply(Pending(hr), "prompt")
      /\ ~LLMThrew(hr) =>
           /\ ~hr.caught
           /\ RepliedOk(hr, "constrained") /\ RepliedOk(hr, "unrestricted")
           /\ IsReply(hr.out[Len(hr.out) - 1], "unrestricted")
      /\ LLMThrew(hr) =>
           /\ hr.caught
           /\ IsReply(hr.out[Len(hr.out) - 1], "apology")
           /\ hr.out[Len(hr.out) - 1].res = "ok"

C12_Step ==
  \A h \in Slots :
    (Text(h) /\ handlers[h].pc = "showPrompt" /\ Steps(h)) =>
      chatMsgs'[handlers[h].chat] = Append(chatMsgs[handlers[h].chat], "prompt")

\* C12: when every transport call succeeds and every completion call returns
\* or throws, a text handler that found the chat's state goes on to render the
\* Prompt screen: after both answer replies when no completion call threw,
\* after the apology when one did.
C12_PromptEventually ==
  /\ [](C12_Order) /\ [][C12_Step]_vars
  /\ \A h \in Slots :
       (Text(h) /\ handlers[h].pc = "typing1")
         ~> (Text(h) /\ handlers[h].pc = "showPrompt")

C12_Witness ==
  \E h \in Slots :
    LET hr == handlers[h] IN
    /\ Text(h) /\ hr.pc = "showPrompt"
    /\ RepliedOk(hr, "constrained") /\ ~RepliedOk(hr, "unrestricted")
    /\ \E i \in LlmCalls(hr, "unrestricted") : hr.out[i].res = "threw"
    /\ RepliedOk(hr, "apology")

\* an update of the given kinds arrives for chat c in this step
ArrivesFor(c, kinds) ==
  \E h \in Slots :
    /\ handlers[h].pc = "idle" /\ nEvents' = nEvents + 1
    /\ handlers'[h].kind \in kinds /\ handlers'[h].chat = c

IsPrefix(a, b) == Len(a) <= Len(b) /\ SubSeq(b, 1, Len(a)) = a

C13_Step ==
  \A c \in Chats :
    (dialogs[c] # NoRef /\ settingsByChat[c] # NoRef) =>
      /\ dialogs'[c] # NoRef /\ settingsByChat'[c] # NoRef
      /\ ArrivesFor(c, Resets) => FreshState(c)
      /\ ~ArrivesFor(c, Resets) =>
           /\ dialogs'[c] = dialogs[c] /\ settingsByChat'[c] = settingsByChat[c]
           /\ IsPrefix(arrays[dialogs[c]], arrays'[dialogs[c]])
           /\ ~ArrivesFor(c, {"setting"}) =>
                objects'[settingsByChat[c]] = objects[settingsByChat[c]]

\* C13: a chat that has a history and settings keeps having both; the history
\* and the settings object are replaced only in the first step of a start,
\* reset or do_start handler of that chat, which leaves the defaults; in every
\* other step the history keeps its entries and the settings object its
\* values, a settings button's own assignment apart.
C13_OnlyResetsDiscard == [][C13_Step]_vars

C13_Witness ==
  \E c \in Chats, h \in Slots :
    /\ dialogs[c] # NoRef /\ Len(arrays[dialogs[c]]) = 3
    /\ objects[settingsByChat[c]] # newDefaultSettings
    /\ handlers[h].chat = c /\ handlers[h].kind = "setting"
    /\ handlers[h].pc \in {"editInPlace", "editDirect", "sendControls"}

InDomain(s) ==
  /\ s.max_tokens \in {64, 128, 256, 512}
  /\ s.format \in {"bullets", "json"}
  /\ s.temperature \in {2, 7, 9}
  /\ s.frequency_penalty \in {0, 6}
  /\ s.presence_penalty \in {0, 6}
  /\ s.use_stop \in BOOLEAN

C14_Domains == \A r \in LiveObjects(Store, handlers) : InDomain(objects[r])

C14_Step ==
  \A c \in Chats :
    settingsByChat[c] # NoRef =>
      /\ ( /\ objects[settingsByChat[c]].temperature # 7
           /\ objects'[settingsByChat'[c]].temperature = 7 )
         => ArrivesFor(c, Resets)
      /\ \A h \in Slots :
           ( /\ handlers[h].pc = "idle" /\ handlers'[h].kind = "setting"
             /\ handlers'[h].chat = c
             /\ ButtonOf(handlers'[h].data).field = "temperature" )
           => objects'[settingsByChat'[c]].temperature \in {2, 9}

\* C14: every settings object, of a chat or still held by a handler, has
\* max_tokens in {64, 128, 256, 512}, format bullets or json, temperature 0.2,
\* 0.7 or 0.9, both penalties 0 or 0.6 and a boolean use_stop; a temperature
\* button leaves 0.2 or 0.9, and settings whose temperature is not 0.7 get 0.7
\* back only by a start, reset or do_start.
C14_SettingsDomains == [](C14_Domains) /\ [][C14_Step]_vars

C14_Witness ==
  \E c \in Chats :
    /\ settingsByChat[c] # NoRef
    /\ objects[settingsByChat[c]].temperature = 2
    /\ objects[settingsByChat[c]].max_tokens = 512

AnswerReplies(hr) ==
  {i \in DOMAIN hr.out :
     IsReply(hr.out[i], "constrained") \/ IsReply(hr.out[i], "unrestricted")}

C15_Replies ==
  \A h \in Slots :
    LET hr == handlers[h] IN
    \A i \in AnswerReplies(hr) :
      LET a == hr.out[i].answer IN
      /\ i > 1 /\ hr.out[i - 1].op = "llm" /\ hr.out[i - 1].what = hr.out[i].what
      /\ hr.out[i - 1].res = "ok"
      /\ a.of.kind \in {"answer", "empty"}
      /\ a.of.kind = "answer" =>
           a.of.text = hr.out[i - 1].messages[Len(hr.out[i - 1].messages)].content.text
      /\ hr.out[i].what = "unrestricted" => a.of = hr.unrestrictedAnswerRaw
      /\ a.of.len > 3500 => (a.first = 3500 /\ a.marker)
      /\ a.of.len <= 3500 => (a.first = a.of.len /\ ~a.marker)

WellFormed(history) ==
  /\ Len(history) % 2 = 1
  /\ history[1] = [role |-> "system", content |-> DEFAULT_SYSTEM]
  /\ \A i \in 2..Len(history) :
       history[i].role = IF i % 2 = 0 THEN "user" ELSE "assistant"

\* C16: at every await, every history, the one of a chat or one a handler
\* still holds after a reset, is the system message followed by
\* (user, assistant) pairs: odd length, the system message first and only
\* there, then user and assistant in turn.
C16_HistoryAlternates ==
  /\ \A c \in Chats : dialogs[c] # NoRef => WellFormed(arrays[dialogs[c]])
  /\ \A h \in Slots :
       handlers[h].history # NoRef => WellFormed(arrays[handlers[h].history])

C16_Witness ==
  \E h \in Slots :
    LET hr == handlers[h] IN
    /\ Text(h) /\ hr.pc = "showPrompt" /\ ~hr.caught
    /\ hr.history = dialogs[hr.chat]
    /\ Len(hr.baseMessages) = 2
    /\ Len(arrays[hr.history]) = 5

\* the summary describes the parameters of the request
Describes(summary, payload) ==
  /\ summary.max_tokens = payload.max_tokens
  /\ summary.temp = payload.temperature
  /\ summary.freq = payload.frequency_penalty
  /\ summary.pres = payload.presence_penalty
  /\ summary.stop = "ON (<END>)" <=> "stop" \in DOMAIN payload

\* C17: the settings summary of a constrained reply describes the parameters
\* sent with the constrained request it answers.
C17_SummaryMatchesParams ==
  \A h \in Slots :
    LET hr == handlers[h] IN
    \A i \in DOMAIN hr.out :
      IsReply(hr.out[i], "constrained") =>
        \E j \in LlmCalls(hr, "constrained") :
          j = i - 1 /\ Describes(hr.out[i].summary, hr.out[j].payload)

C18_Step ==
  /\ \A c \in Chats :
       /\ ArrivesFor(c, Resets) =>
            /\ arrays'[dialogs'[c]] = <<Message("system", DEFAULT_SYSTEM)>>
            /\ \A g \in Slots : handlers'[g].history # dialogs'[c]
       /\ (dialogs[c] # NoRef /\ ~ArrivesFor(c, Resets)
             /\ arrays'[dialogs'[c]] # arrays[dialogs[c]]) =>
            \E h \in Slots :
              /\ AppendStep(h) /\ handlers[h].chat = c
              /\ handlers[h].history = dialogs[c]
  /\ \A h \in Slots :
       /\ (handlers[h].pc = "idle" /\ handlers'[h].pc = "typing1")
            => handlers'[h].history = dialogs'[handlers'[h].chat]
       /\ (Running(h) /\ handlers'[h].pc # "idle")
            => handlers'[h].history = handlers[h].history

\* C18: a reset gives the chat a new history [system] that no running handler
\* holds; a text handler keeps the array it read when its message arrived and
\* appends to that one; so the chat's history is extended only by handlers
\* whose message arrived after the chat's last reset, and a handler that was
\* pending at the reset appends to the discarded array.
C18_ResetCutsPending == [][C18_Step]_vars

C18_Witness ==
  \E h \in Slots :
    LET hr == handlers[h] IN
    /\ Text(h) /\ hr.pc = "showPrompt" /\ ~hr.caught
    /\ dialogs[hr.chat] \notin {NoRef, hr.history}
    /\ Len(arrays[hr.history]) = 3
    /\ arrays[dialogs[hr.chat]] = <<Message("system", DEFAULT_SYSTEM)>>

ShowsSettings(c) == {m \in DOMAIN chatMsgs[c] : chatMsgs[c][m] = "settings"}

\* message m of chat c starts to show the Settings screen in this step
Becomes(c, m) ==
  /\ m \in DOMAIN chatMsgs'[c] /\ chatMsgs'[c][m] = "settings"
  /\ m \notin ShowsSettings(c)

C19_Recorded ==
  \A c \in Chats :
    settingsMsgIdByChat[c] # NoMsg => settingsMsgIdByChat[c] \in ShowsSettings(c)

C19_Step ==
  /\ \A h \in Slots :
       LET hr == handlers[h]
           c == hr.chat
       IN /\ (hr.pc = "editInPlace" /\ Steps(h)) =>
               /\ chatMsgs'[c] = [chatMsgs[c] EXCEPT ![hr.cbMsg] = "settings"]
               /\ settingsMsgIdByChat'[c] = hr.cbMsg
               /\ handlers'[h].pc \notin {"editDirect", "sendControls"}
          /\ (hr.pc = "editDirect" /\ Steps(h)) =>
               /\ ~IsCallback(hr) /\ hr.existingId # NoMsg
               /\ hr.existingId \in ShowsSettings(c)
               /\ chatMsgs' = chatMsgs
               /\ handlers'[h].pc # "sendControls"
          /\ (hr.pc = "sendControls" /\ Steps(h)) =>
               /\ ~IsCallback(hr) /\ hr.existingId = NoMsg
               /\ \/ /\ chatMsgs'[c] = Append(chatMsgs[c], "settings")
                     /\ settingsMsgIdByChat'[c] = Len(chatMsgs'[c])
                  \/ /\ chatMsgs' = chatMsgs /\ handlers'[h] = Idle
                     /\ settingsMsgIdByChat' = settingsMsgIdByChat
  /\ \A c \in Chats : \A m \in DOMAIN chatMsgs'[c] :
       Becomes(c, m) =>
         \E h \in Slots :
           /\ handlers[h].chat = c /\ Steps(h)
           /\ \/ handlers[h].pc = "editInPlace" /\ m = handlers[h].cbMsg
              \/ handlers[h].pc = "sendControls" /\ m = Len(chatMsgs[c]) + 1

Untouched(B) ==
  /\ dialogs'[B] = dialogs[B] /\ settingsByChat'[B] = settingsByChat[B]
  /\ settingsMsgIdByChat'[B] = settingsMsgIdByChat[B]
  /\ chatMsgs'[B] = chatMsgs[B]
  /\ dialogs[B] # NoRef => arrays'[dialogs[B]] = arrays[dialogs[B]]
  /\ settingsByChat[B] # NoRef => objects'[settingsByChat[B]] = objects[settingsByChat[B]]

C20_Step ==
  /\ \A h \in Slots :
       Steps(h) =>
         LET A == IF Running(h) THEN handlers[h].chat ELSE handlers'[h].chat
         IN \A B \in Chats \ {A} : Untouched(B)
  /\ handlers' = handlers => \A B \in Chats : Untouched(B)

C20_Requests ==
  /\ \A A \in Chats, B \in Chats :
       (A # B /\ dialogs[A] # NoRef) =>
         (dialogs[A] # dialogs[B] /\ settingsByChat[A] # settingsByChat[B])
  /\ \A h \in Slots :
       LET hr == handlers[h] IN
       /\ \A B \in Chats \ {hr.chat} :
            /\ hr.history # NoRef => hr.history # dialogs[B]
            /\ hr.s # NoRef => hr.s # settingsByChat[B]
       /\ \A j \in AllLlm(hr) :
            LET messages == hr.out[j].messages IN
            /\ hr.history # NoRef /\ messages # <<>>
            /\ IsPrefix(SubSeq(messages, 1, Len(messages) - 1), arrays[hr.history])
            /\ messages[Len(messages)].role = "user"
            /\ messages[Len(messages)].content.text = hr.userText

\* C20: a step of a handler of chat A leaves the history, the settings, the
\* recorded settings message and the messages of every other chat as they
\* were; chats share no array and no settings object, and every completion
\* request of a handler carries entries of the array the handler read from
\* its own chat, followed by the handler's user text.
C20_ChatsIsolated == [](C20_Requests) /\ [][C20_Step]_vars

C20_Witness ==
  \E A \in Chats, B \in Chats, h \in Slots :
    /\ A # B /\ dialogs[A] # NoRef /\ dialogs[B] # NoRef
    /\ arrays[dialogs[B]] = <<Message("system", DEFAULT_SYSTEM)>>
    /\ Text(h) /\ handlers[h].chat = A /\ handlers[h].pc = "showPrompt"
    /\ Len(arrays[dialogs[A]]) = 3

====
